---- MODULE Spec2Model ----
(***************************************************************************)
(* A model of complete_odi_processor.py (CompleteODIProcessor): the        *)
(* canonical player key, the ball-by-ball player statistics, the team      *)
(* scores, the conversion of a match record into a puzzle, the puzzle      *)
(* validator and the batch loop that creates the ODI puzzles.              *)
(*                                                                         *)
(* Python values are modelled as follows.  A dict is a function whose      *)
(* DOMAIN is its key set (a missing key is a key outside the DOMAIN); a    *)
(* list is a sequence; a string that the code inspects character by        *)
(* character (a player name, a player key) is a sequence of one-character  *)
(* strings; a string the code only compares or copies (a team name, a      *)
(* wicket kind, a date) is a TLA+ string.  An Optional result is a         *)
(* sequence of length 0 (None) or 1.                                       *)
(***************************************************************************)
EXTENDS Integers, Sequences, FiniteSets, TLC

VARIABLES
    \* create_player_key
    player_name, player_key, key_again, kpc,
    \* calculate_player_stats
    info, player_stats, seen, fresh, played_players, spc,
    \* calculate_team_scores
    scores, total_runs, total_wickets, inning, inning_seen, innings_done,
    ts_fresh, tpc,
    \* convert_to_cricguess_puzzle
    cricsheet_data, conv_result, cpc,
    \* is_valid_puzzle
    puzzle, valid_result, vpc,
    \* create_odi_puzzles
    selected_files, file_index, converted, puzzles, current_id,
    processed_count, skipped, errors, attempts, bpc,
    \* update_match_puzzles_json
    puzzles_file, objects, ipl_puzzles, odi_puzzles, alternating_puzzles,
    merge_i, merge_id, mpc,
    \* update_players_json
    players_file, new_players, existing_players, read_players, todo,
    added_count, updated_count, new_players_added, calls, ppc

keyVars == <<player_name, player_key, key_again, kpc>>
statsVars == <<info, player_stats, seen, fresh, played_players, spc>>
teamVars == <<scores, total_runs, total_wickets, inning, inning_seen,
              innings_done, ts_fresh, tpc>>
convVars == <<cricsheet_data, conv_result, cpc>>
validVars == <<puzzle, valid_result, vpc>>
batchVars == <<selected_files, file_index, converted, puzzles, current_id,
               processed_count, skipped, errors, attempts, bpc>>
mergeVars == <<puzzles_file, objects, ipl_puzzles, odi_puzzles,
               alternating_puzzles, merge_i, merge_id, mpc>>
playersVars == <<players_file, new_players, existing_players, read_players,
                 todo, added_count, updated_count, new_players_added, calls, ppc>>
vars == <<keyVars, statsVars, teamVars, convVars, validVars, batchVars, mergeVars,
          playersVars>>

\* what an action of one function leaves alone: the state of the others
exceptKey == <<statsVars, teamVars, convVars, validVars, batchVars,
               mergeVars, playersVars>>
exceptStats == <<keyVars, teamVars, convVars, validVars, batchVars,
                 mergeVars, playersVars>>
exceptTeam == <<keyVars, statsVars, convVars, validVars, batchVars,
                mergeVars, playersVars>>
exceptConv == <<keyVars, statsVars, teamVars, validVars, batchVars,
                mergeVars, playersVars>>
exceptValid == <<keyVars, statsVars, teamVars, convVars, batchVars,
                 mergeVars, playersVars>>
exceptBatch == <<keyVars, statsVars, teamVars, convVars, validVars,
                 mergeVars, playersVars>>
exceptMerge == <<keyVars, statsVars, teamVars, convVars, validVars, batchVars,
                 playersVars>>
exceptPlayers == <<keyVars, statsVars, teamVars, convVars, validVars, batchVars,
                   mergeVars>>

-----------------------------------------------------------------------------
(* Bounds of the model.                                                    *)

\* longest player name given to create_player_key
MaxNameLen == 3
\* deliveries read by one run of calculate_player_stats
MaxBalls == 2
\* deliveries read by one run of calculate_team_scores, over all its innings
MaxTeamBalls == 3
\* innings read by one run of calculate_team_scores
MaxInnings == 2
\* longest info.teams list, and most team_scores entries, of the inputs
MaxTeams == 3
\* most playerPerformances entries of a puzzle given to is_valid_puzzle
MaxPerformers == 9
\* most match files in the ./odi folder
MaxFiles == 3
\* most puzzles of the existing match_puzzles.json
MaxIpl == 3
\* most new puzzles given to update_match_puzzles_json
MaxOdi == 3
\* most player keys of players.json and new_players together
MaxPlayers == 2

-----------------------------------------------------------------------------
(* Python helpers.                                                         *)

None == <<>>
Some(x) == <<x>>

\* {} : the empty dict
EmptyDict == [k \in {} |-> 0]

\* d.get(k, default)
Get(d, k, default) == IF k \in DOMAIN d THEN d[k] ELSE default

\* d[k] = v on a dict
Put(d, k, v) == [x \in (DOMAIN d) \cup {k} |-> IF x = k THEN v ELSE d[x]]

\* the value of d.get(k) when k is missing, for a string-valued field
PyNone == "<None>"

-----------------------------------------------------------------------------
(* create_player_key: re.sub(r'[^a-zA-Z]', '', player_name).upper()        *)

LowerCase == <<"a", "b", "c", "d", "e", "f", "g", "h", "i", "j", "k", "l", "m",
               "n", "o", "p", "q", "r", "s", "t", "u", "v", "w", "x", "y", "z">>
UpperCase == <<"A", "B", "C", "D", "E", "F", "G", "H", "I", "J", "K", "L", "M",
               "N", "O", "P", "Q", "R", "S", "T", "U", "V", "W", "X", "Y", "Z">>

\* the class [a-zA-Z] of the regular expression
IsAsciiLetter(c) == \E i \in 1..Len(LowerCase) : c = LowerCase[i] \/ c = UpperCase[i]

\* str.upper() on one character; "e_acute" stands for a letter outside ASCII
UpperChar(c) ==
    IF \E i \in 1..Len(LowerCase) : c = LowerCase[i]
    THEN UpperCase[CHOOSE i \in 1..Len(LowerCase) : c = LowerCase[i]]
    ELSE IF c = "e_acute" THEN "E_ACUTE" ELSE c

\* re.sub(r'[^a-zA-Z]', '', s): every character outside the class is deleted
ReSubNonLetters(s) == SelectSeq(s, IsAsciiLetter)

StrUpper(s) == [i \in 1..Len(s) |-> UpperChar(s[i])]

\* a plausible slip: the .upper() call left out, lower case stays as it is
create_player_key_no_upper(name) == ReSubNonLetters(name)

create_player_key(name) == StrUpper(ReSubNonLetters(name))

-----------------------------------------------------------------------------
(* calculate_player_stats                                                  *)

\* the PlayerStat written for every roster member (lines 349-361)
ZeroStat(player, team) ==
    [full_name |-> player, team |-> team, runs_in_match |-> 0,
     wickets_in_match |-> 0, balls_faced |-> 0, balls_bowled |-> 0,
     boundaries |-> [fours |-> 0, sixes |-> 0], played_in_match |-> FALSE]

\* for player in players: player_stats[create_player_key(player)] = {...}
RECURSIVE InitTeamPlayers(_, _, _)
InitTeamPlayers(stats, team, players) ==
    IF players = <<>> THEN stats
    ELSE InitTeamPlayers(
            Put(stats, create_player_key(Head(players)), ZeroStat(Head(players), team)),
            team, Tail(players))

\* for team, players in info['players'].items(); the roster is the sequence of
\* the dict's items in their order
RECURSIVE InitPlayerStats(_, _)
InitPlayerStats(stats, roster) ==
    IF roster = <<>> THEN stats
    ELSE InitPlayerStats(
            InitTeamPlayers(stats, Head(roster).team, Head(roster).players),
            Tail(roster))

\* a plausible slip: boundaries tested with >= instead of ==
IsFourAtLeast(runs) == "batter" \in DOMAIN runs /\ runs["batter"] >= 4

\* runs.get('batter') == 4
IsFour(runs) == "batter" \in DOMAIN runs /\ runs["batter"] = 4

\* runs.get('batter') == 6
IsSix(runs) == "batter" \in DOMAIN runs /\ runs["batter"] = 6

\* a plausible slip: an unknown batter gets a fresh entry (setdefault)
BatKnownOrCreate(stats, batter_key) == TRUE

\* if batter_key in player_stats
BatKnown(stats, batter_key) == batter_key \in DOMAIN stats

\* the batting half of the loop body (lines 373-389)
BatUpdate(stats, delivery) ==
    LET batter_key == create_player_key(delivery["batter"])
        runs == Get(delivery, "runs", EmptyDict)
        base == IF batter_key \in DOMAIN stats THEN stats[batter_key]
                ELSE ZeroStat(delivery["batter"], "")
        s1 == [base EXCEPT !.played_in_match = TRUE,
                           !.runs_in_match = @ + Get(runs, "batter", 0),
                           !.balls_faced = @ + 1]
        s2 == IF IsFour(runs) THEN [s1 EXCEPT !.boundaries.fours = @ + 1]
              ELSE IF IsSix(runs) THEN [s1 EXCEPT !.boundaries.sixes = @ + 1]
              ELSE s1
    IN  IF BatKnown(stats, batter_key) THEN Put(stats, batter_key, s2) ELSE stats

\* a plausible slip: every wicket event is credited to the bowler
CreditsBowlerAlways(wicket) == TRUE

\* wicket.get('kind') not in ['run out', 'retired hurt']
CreditsBowler(wicket) == Get(wicket, "kind", PyNone) \notin {"run out", "retired hurt"}

\* for wicket in delivery['wickets']: ... wickets_in_match += 1
RECURSIVE CreditWickets(_, _)
CreditWickets(stat, wickets) ==
    IF wickets = <<>> THEN stat
    ELSE CreditWickets(
            IF CreditsBowler(Head(wickets))
            THEN [stat EXCEPT !.wickets_in_match = @ + 1] ELSE stat,
            Tail(wickets))

\* the bowling half of the loop body (lines 374, 391-403); a wickets list that
\* is missing or empty is falsy and skipped
BowlUpdate(stats, delivery) ==
    LET bowler_key == create_player_key(delivery["bowler"])
    IN  IF bowler_key \in DOMAIN stats
        THEN LET s1 == [stats[bowler_key] EXCEPT !.played_in_match = TRUE,
                                                 !.balls_bowled = @ + 1]
             IN  Put(stats, bowler_key, CreditWickets(s1, Get(delivery, "wickets", <<>>)))
        ELSE stats

\* the body of "for delivery in over['deliveries']"
ProcessDelivery(stats, delivery) == BowlUpdate(BatUpdate(stats, delivery), delivery)

\* a plausible slip: the filter is dropped and the whole roster returned
PlayedPlayersUnfiltered(stats) == stats

\* {k: v for k, v in player_stats.items() if v['played_in_match']}
PlayedPlayers(stats) ==
    [k \in {x \in DOMAIN stats : stats[x].played_in_match} |-> stats[k]]

-----------------------------------------------------------------------------
(* calculate_team_scores                                                   *)

\* total_runs += delivery.get('runs', {}).get('total', 0)
TeamRunsAdd(total, delivery) ==
    total + Get(Get(delivery, "runs", EmptyDict), "total", 0)

\* a plausible slip: the bowler's rule applied to the team's wickets, so that
\* run-outs and retirements are not counted
TeamWicketsAddCredited(total, delivery) ==
    total + Len(SelectSeq(Get(delivery, "wickets", <<>>), CreditsBowler))

\* if delivery.get('wickets'): total_wickets += len(delivery['wickets'])
TeamWicketsAdd(total, delivery) == total + Len(Get(delivery, "wickets", <<>>))

\* a plausible slip: a team's innings merged, the totals added to the entry the
\* team already has
StoreScoreSummed(sc, team, runs, wickets) ==
    Put(sc, team, [runs |-> Get(sc, team, [runs |-> 0, wickets |-> 0]).runs + runs,
                   wickets |-> Get(sc, team, [runs |-> 0, wickets |-> 0]).wickets + wickets])

\* scores[inning['team']] = {'runs': total_runs, 'wickets': total_wickets}
StoreScore(sc, team, runs, wickets) == Put(sc, team, [runs |-> runs, wickets |-> wickets])

\* for delivery in over['deliveries'], on the pair of running totals
RECURSIVE DeliveriesTotals(_, _)
DeliveriesTotals(acc, deliveries) ==
    IF deliveries = <<>> THEN acc
    ELSE DeliveriesTotals(
            [runs |-> TeamRunsAdd(acc.runs, Head(deliveries)),
             wickets |-> TeamWicketsAdd(acc.wickets, Head(deliveries))],
            Tail(deliveries))

\* for over in inning['overs']: if over.get('deliveries'): ...
RECURSIVE OversTotals(_, _)
OversTotals(acc, overs) ==
    IF overs = <<>> THEN acc
    ELSE OversTotals(DeliveriesTotals(acc, Get(Head(overs), "deliveries", <<>>)),
                     Tail(overs))

\* the totals of one innings (lines 417-427); overs missing or empty give 0/0
InningTotals(inn) == OversTotals([runs |-> 0, wickets |-> 0], Get(inn, "overs", <<>>))

RECURSIVE TeamScoresFold(_, _)
TeamScoresFold(sc, innings) ==
    IF innings = <<>> THEN sc
    ELSE LET t == InningTotals(Head(innings))
         IN  TeamScoresFold(StoreScore(sc, Head(innings)["team"], t.runs, t.wickets),
                            Tail(innings))

\* inning['team'] raises KeyError on an innings without a team
calculate_team_scores_raises(innings) ==
    \E i \in 1..Len(innings) : "team" \notin DOMAIN innings[i]

\* its value when it does not raise
calculate_team_scores(innings) == TeamScoresFold(EmptyDict, innings)

-----------------------------------------------------------------------------
(* calculate_player_stats as one function of the match record              *)

\* for delivery in over['deliveries']
RECURSIVE StatsDeliveries(_, _)
StatsDeliveries(stats, deliveries) ==
    IF deliveries = <<>> THEN stats
    ELSE StatsDeliveries(ProcessDelivery(stats, Head(deliveries)), Tail(deliveries))

\* for over in inning['overs']: if not over.get('deliveries'): continue
RECURSIVE StatsOvers(_, _)
StatsOvers(stats, overs) ==
    IF overs = <<>> THEN stats
    ELSE StatsOvers(StatsDeliveries(stats, Get(Head(overs), "deliveries", <<>>)),
                    Tail(overs))

\* for inning in innings: if not inning.get('overs'): continue
RECURSIVE StatsInnings(_, _)
StatsInnings(stats, innings) ==
    IF innings = <<>> THEN stats
    ELSE StatsInnings(StatsOvers(stats, Get(Head(innings), "overs", <<>>)),
                      Tail(innings))

Elements(seq) == {seq[k] : k \in 1..Len(seq)}

\* the deliveries the loops reach
DeliveriesOf(innings) ==
    UNION {UNION {Elements(Get(over, "deliveries", <<>>)) :
                    over \in Elements(Get(inn, "overs", <<>>))} :
            inn \in Elements(innings)}

\* info['players'], delivery['batter'] and delivery['bowler'] raise KeyError
\* when the key is missing
calculate_player_stats_raises(data) ==
    \/ "players" \notin DOMAIN data["info"]
    \/ \E d \in DeliveriesOf(data["innings"]) :
            "batter" \notin DOMAIN d \/ "bowler" \notin DOMAIN d

\* its value when it does not raise
calculate_player_stats(data) ==
    PlayedPlayers(StatsInnings(InitPlayerStats(EmptyDict, data["info"]["players"]),
                               data["innings"]))

-----------------------------------------------------------------------------
(* convert_to_cricguess_puzzle and the functions it calls                  *)

\* the result of a call: the exception that left it ("" when it returned) and
\* the value it returned
Returned(v) == [raised |-> "", value |-> v]
Raised(exc) == [raised |-> exc, value |-> None]

\* a Python list, and a Python str where a list is expected
List(items) == [type |-> "list", items |-> items]
Str(chars) == [type |-> "str", items |-> chars]

\* datetime.strptime(date, '%Y-%m-%d') succeeds on these dates of the model
ValidDates == {"2011-04-02", "2007-03-13"}

\* datetime.strptime(date, '%Y-%m-%d').year
YearOf(date) == IF date = "2011-04-02" THEN 2011 ELSE 2007

\* extract_season: f"{year-1}/{str(year)[-2:]}", as the two numbers it prints
extract_season(date) == <<YearOf(date) - 1, YearOf(date) % 100>>

\* not info.get('player_of_match') or not info.get('teams')
\* or not cricsheet_data.get('innings')
MissingRequiredData(data) ==
    LET i == data["info"]
    IN  \/ Len(Get(i, "player_of_match", List(<<>>)).items) = 0
        \/ Len(Get(i, "teams", <<>>)) = 0
        \/ Len(Get(data, "innings", <<>>)) = 0

\* not isinstance(info['player_of_match'], list) or len(...) == 0
NoPlayerOfMatch(data) ==
    LET pom == data["info"]["player_of_match"]
    IN  pom.type # "list" \/ Len(pom.items) = 0

\* a plausible slip: the last nominated player taken for the first
PlayerOfMatchLast(data) ==
    LET items == data["info"]["player_of_match"].items IN items[Len(items)]

\* info['player_of_match'][0]
PlayerOfMatch(data) == data["info"]["player_of_match"].items[1]

\* generate_puzzle_content indexes teams[0], teams[1] and team_scores by both
generate_puzzle_content_exc(match_data) ==
    LET teams == match_data.scorecard.teams
        team_scores == match_data.scorecard.team_scores
    IN  IF teams[1] \notin DOMAIN team_scores THEN "KeyError"
        ELSE IF Len(teams) < 2 THEN "IndexError"
        ELSE IF teams[2] \notin DOMAIN team_scores THEN "KeyError"
        ELSE ""

\* the fields the scorecard text interpolates, in the order of the text
generate_puzzle_content(match_data) ==
    LET sc == match_data.scorecard
    IN  [title |-> <<sc.teams[1], sc.teams[2]>>,
         venue |-> sc.venue,
         date |-> sc.date,
         team1_score |-> <<sc.teams[1], sc.team_scores[sc.teams[1]].runs,
                           sc.team_scores[sc.teams[1]].wickets>>,
         team2_score |-> <<sc.teams[2], sc.team_scores[sc.teams[2]].runs,
                           sc.team_scores[sc.teams[2]].wickets>>,
         winner |-> sc.winner]

\* the templates random.choice draws from
TriviaTemplates == {1, 2, 3, 4}

\* generate_trivia: the chosen template and the fields the templates interpolate
generate_trivia(match_data, choice) ==
    LET sc == match_data.scorecard
    IN  [template |-> choice, venue |-> sc.venue, year |-> YearOf(sc.date),
         player_of_match |-> sc.player_of_match, teams |-> sc.teams]

\* lines 287-333, the body of the try: the exception that leaves it, or the
\* puzzle it returns
ConvertBody(data, puzzle_id, choice) ==
    IF "info" \notin DOMAIN data THEN Raised("KeyError")
    ELSE IF MissingRequiredData(data) THEN Raised("ValueError")
    ELSE IF NoPlayerOfMatch(data) THEN Raised("ValueError")
    ELSE IF calculate_player_stats_raises(data) THEN Raised("KeyError")
    ELSE IF calculate_team_scores_raises(data["innings"]) THEN Raised("KeyError")
    ELSE
    LET i == data["info"]
        player_performances == calculate_player_stats(data)
        team_scores == calculate_team_scores(data["innings"])
        player_of_match == PlayerOfMatch(data)
        target_player_key == create_player_key(player_of_match)
    IN
    IF target_player_key \notin DOMAIN player_performances THEN Raised("ValueError")
    ELSE IF "dates" \notin DOMAIN i THEN Raised("KeyError")
    ELSE IF i["dates"] = <<>> THEN Raised("IndexError")
    ELSE IF i["dates"][1] \notin ValidDates THEN Raised("ValueError")
    ELSE
    LET match_data ==
            [scorecard |->
                [teams |-> i["teams"],
                 venue |-> Get(i, "venue", "Unknown Venue"),
                 date |-> i["dates"][1],
                 season |-> extract_season(i["dates"][1]),
                 winner |-> Get(Get(i, "outcome", EmptyDict), "winner", "No Result"),
                 player_of_match |-> player_of_match,
                 team_scores |-> team_scores],
             playerPerformances |-> player_performances]
    IN
    IF generate_puzzle_content_exc(match_data) # ""
    THEN Raised(generate_puzzle_content_exc(match_data))
    ELSE Returned(Some(
            [id |-> puzzle_id,
             targetPlayer |-> target_player_key,
             puzzleType |-> "scorecard",
             puzzleContent |-> generate_puzzle_content(match_data),
             puzzleDescription |-> "Guess the Player of the Match",
             matchData |-> match_data,
             trivia |-> generate_trivia(match_data, choice)]))

\* a plausible slip: a handler for the error the function raises itself only
ExceptCatchesValueError(exc) == exc = "ValueError"

\* except Exception (line 335): every exception of the body is one
ExceptCatches(exc) == exc \in {"KeyError", "ValueError", "IndexError", "TypeError"}

\* try: ... return puzzle / except Exception: return None
convert_to_cricguess_puzzle(data, puzzle_id, choice) ==
    LET body == ConvertBody(data, puzzle_id, choice)
    IN  IF body.raised # "" /\ ExceptCatches(body.raised) THEN Returned(None)
        ELSE body

-----------------------------------------------------------------------------
(* is_valid_puzzle                                                         *)

\* the subscripts of lines 613-622 raise KeyError on a missing field
is_valid_puzzle_raises(p) ==
    \/ "targetPlayer" \notin DOMAIN p
    \/ "matchData" \notin DOMAIN p
    \/ "scorecard" \notin DOMAIN p["matchData"]
    \/ "teams" \notin DOMAIN p["matchData"]["scorecard"]
    \/ "playerPerformances" \notin DOMAIN p["matchData"]
    \/ "team_scores" \notin DOMAIN p["matchData"]["scorecard"]

\* puzzle['targetPlayer'] and puzzle['targetPlayer'] in playerPerformances
has_valid_target(p) ==
    /\ p["targetPlayer"] # <<>>
    /\ p["targetPlayer"] \in DOMAIN p["matchData"]["playerPerformances"]

\* len(teams) == 2
has_valid_teams(p) == Len(p["matchData"]["scorecard"]["teams"]) = 2

\* a plausible slip: > written for >=
has_more_players(p) == Cardinality(DOMAIN p["matchData"]["playerPerformances"]) > 8

\* len(playerPerformances) >= 8
has_enough_players(p) == Cardinality(DOMAIN p["matchData"]["playerPerformances"]) >= 8

\* team_scores and len(team_scores) == 2
has_scores(p) ==
    /\ DOMAIN p["matchData"]["scorecard"]["team_scores"] # {}
    /\ Cardinality(DOMAIN p["matchData"]["scorecard"]["team_scores"]) = 2

\* the value is the truth value of what the function returns: the and-chain
\* of line 624 returns its first falsy operand ('', False or {}) or the last
is_valid_puzzle(p) ==
    IF is_valid_puzzle_raises(p) THEN Returned(FALSE)
    ELSE Returned(/\ has_valid_target(p)
                  /\ has_valid_teams(p)
                  /\ has_enough_players(p)
                  /\ has_scores(p))

-----------------------------------------------------------------------------
(* Inputs of the model.                                                    *)

\* the characters of the names given to create_player_key: letters of both
\* cases, whitespace, punctuation, a digit and a letter outside ASCII
KeyAlphabet == {"a", "b", "B", " ", "-", "7", "e_acute"}

NamesUpTo(n) == UNION {[1..k -> KeyAlphabet] : k \in 0..n}

\* player names of the match records: N_AB1 and N_AB2 are two spellings with
\* the same key
N_AB1 == <<"A", " ", "b">>
N_AB2 == <<"a", "b", "7">>
N_C == <<"c">>
N_X == <<"x", "-">>

\* info['players'] as the sequence of its items
Roster1 == <<[team |-> "T1", players |-> <<N_AB1>>],
             [team |-> "T2", players |-> <<N_C>>]>>
Roster2 == <<[team |-> "T1", players |-> <<N_AB1, N_C>>],
             [team |-> "T2", players |-> <<N_AB2>>]>>
Roster3 == <<[team |-> "T1", players |-> <<N_C, N_X>>],
             [team |-> "T2", players |-> <<>>]>>
Rosters == {Roster1, Roster2, Roster3}

Runs(b, t) == [batter |-> b, total |-> t]

Wicket(kind) == [kind |-> kind, player_out |-> N_C]

WicketLists ==
    {<<Wicket("bowled")>>, <<Wicket("run out")>>, <<Wicket("retired hurt")>>,
     <<Wicket("caught"), Wicket("run out")>>, <<[player_out |-> N_C]>>}

\* deliveries that vary the batting: a single, a four, a six (with a wide),
\* no runs field, and a bowler outside two of the rosters
BatDeliveries ==
    {[batter |-> b, bowler |-> N_C, runs |-> r] :
            b \in {N_AB2, N_X}, r \in {Runs(1, 1), Runs(4, 4), Runs(6, 7)}}
    \cup {[batter |-> N_AB2, bowler |-> N_C],
          [batter |-> N_X, bowler |-> N_X],
          [batter |-> N_C, bowler |-> N_X, runs |-> Runs(6, 7)]}

\* deliveries that vary the wickets
WicketDeliveries ==
    {[batter |-> N_AB2, bowler |-> N_C, runs |-> Runs(0, 0), wickets |-> ws] :
        ws \in WicketLists}
    \cup {[batter |-> N_AB2, bowler |-> N_AB2, runs |-> Runs(0, 0), wickets |-> ws] :
        ws \in {<<Wicket("bowled")>>, <<Wicket("caught"), Wicket("run out")>>}}
    \cup {[batter |-> N_AB2, bowler |-> N_X, runs |-> Runs(0, 0),
           wickets |-> <<Wicket("bowled")>>]}

Deliveries == BatDeliveries \cup WicketDeliveries

-----------------------------------------------------------------------------
(* create_player_key applied to a name, and then to the key it returned.   *)

KeyIdle ==
    /\ player_name = <<>>
    /\ player_key = None
    /\ key_again = None
    /\ kpc = "idle"

KeyInit ==
    /\ player_name \in NamesUpTo(MaxNameLen)
    /\ player_key = None
    /\ key_again = None
    /\ kpc = "call"

KeyCall ==
    /\ kpc = "call"
    /\ player_key' = Some(create_player_key(player_name))
    /\ kpc' = "called"
    /\ UNCHANGED <<player_name, key_again, exceptKey>>

KeyCallAgain ==
    /\ kpc = "called"
    /\ key_again' = Some(create_player_key(player_key[1]))
    /\ kpc' = "done"
    /\ UNCHANGED <<player_name, player_key, exceptKey>>

-----------------------------------------------------------------------------
(* calculate_player_stats, one step per loop iteration.  The match record  *)
(* is read as the loops consume it: seen holds the deliveries processed so *)
(* far, spc the loop the function is in, fresh whether the list being      *)
(* iterated (found non-empty by the test before the loop) has yet to give  *)
(* its first element.                                                      *)

StatsIdle ==
    /\ info = EmptyDict
    /\ player_stats = EmptyDict
    /\ seen = <<>>
    /\ fresh = FALSE
    /\ played_players = None
    /\ spc = "idle"

StatsInit ==
    /\ info \in {[players |-> r] : r \in Rosters}
    /\ player_stats = EmptyDict
    /\ seen = <<>>
    /\ fresh = FALSE
    /\ played_players = None
    /\ spc = "start"

\* lines 343-361: every roster member gets a zero PlayerStat
StatsInitPlayers ==
    /\ spc = "start"
    /\ player_stats' = InitPlayerStats(EmptyDict, info["players"])
    /\ spc' = "innings"
    /\ UNCHANGED <<info, seen, fresh, played_players, exceptStats>>

\* for inning in innings: if not inning.get('overs'): continue
StatsNextInning ==
    /\ spc = "innings"
    /\ \E has_overs \in BOOLEAN :
        IF has_overs
        THEN spc' = "overs" /\ fresh' = TRUE
        ELSE spc' = "innings" /\ fresh' = FALSE
    /\ UNCHANGED <<info, player_stats, seen, played_players, exceptStats>>

\* for over in inning['overs']: if not over.get('deliveries'): continue
StatsNextOver ==
    /\ spc = "overs"
    /\ \E has_deliveries \in BOOLEAN :
        IF has_deliveries
        THEN Len(seen) < MaxBalls /\ spc' = "deliveries" /\ fresh' = TRUE
        ELSE spc' = "overs" /\ fresh' = FALSE
    /\ UNCHANGED <<info, player_stats, seen, played_players, exceptStats>>

\* for delivery in over['deliveries']: lines 373-403
StatsNextDelivery ==
    /\ spc = "deliveries"
    /\ Len(seen) < MaxBalls
    /\ \E delivery \in Deliveries :
        /\ player_stats' = ProcessDelivery(player_stats, delivery)
        /\ seen' = Append(seen, delivery)
    /\ fresh' = FALSE
    /\ UNCHANGED <<info, played_players, spc, exceptStats>>

\* the deliveries of the over are exhausted
StatsEndOver ==
    /\ spc = "deliveries"
    /\ ~fresh
    /\ spc' = "overs"
    /\ UNCHANGED <<info, player_stats, seen, fresh, played_players, exceptStats>>

\* the overs of the innings are exhausted
StatsEndInning ==
    /\ spc = "overs"
    /\ ~fresh
    /\ spc' = "innings"
    /\ UNCHANGED <<info, player_stats, seen, fresh, played_players, exceptStats>>

\* the innings are exhausted: lines 405-410
StatsReturn ==
    /\ spc = "innings"
    /\ played_players' = Some(PlayedPlayers(player_stats))
    /\ spc' = "return"
    /\ UNCHANGED <<info, player_stats, seen, fresh, exceptStats>>

-----------------------------------------------------------------------------
(* calculate_team_scores, one step per loop iteration.  inning is the      *)
(* innings being summed, inning_seen its deliveries read so far, and       *)
(* innings_done the innings whose score has been stored, in order.         *)

\* an innings names its team; one record has no team at all
InningHeaders == {[team |-> "T1"], [team |-> "T2"], EmptyDict}

\* deliveries that vary runs.total and the wicket events
TeamDeliveries ==
    {[batter |-> N_C, bowler |-> N_X],
     [batter |-> N_C, bowler |-> N_X, runs |-> [batter |-> 0]],
     [batter |-> N_C, bowler |-> N_X, runs |-> Runs(1, 1),
      wickets |-> <<Wicket("run out")>>],
     [batter |-> N_C, bowler |-> N_X, runs |-> Runs(4, 4), wickets |-> <<>>],
     [batter |-> N_C, bowler |-> N_X, runs |-> Runs(0, 0),
      wickets |-> <<Wicket("bowled"), Wicket("retired hurt")>>]}

RECURSIVE BallsDone(_)
BallsDone(done) ==
    IF done = <<>> THEN 0 ELSE Len(Head(done).deliveries) + BallsDone(Tail(done))

TeamIdle ==
    /\ scores = EmptyDict
    /\ total_runs = 0
    /\ total_wickets = 0
    /\ inning = EmptyDict
    /\ inning_seen = <<>>
    /\ innings_done = <<>>
    /\ ts_fresh = FALSE
    /\ tpc = "idle"

\* line 414: scores = {}
TeamInit ==
    /\ scores = EmptyDict
    /\ total_runs = 0
    /\ total_wickets = 0
    /\ inning = EmptyDict
    /\ inning_seen = <<>>
    /\ innings_done = <<>>
    /\ ts_fresh = FALSE
    /\ tpc = "innings"

\* for inning in innings: total_runs = 0; total_wickets = 0; if inning.get('overs')
TeamNextInning ==
    /\ tpc = "innings"
    /\ Len(innings_done) < MaxInnings
    /\ total_runs' = 0
    /\ total_wickets' = 0
    /\ inning_seen' = <<>>
    /\ \E header \in InningHeaders, has_overs \in BOOLEAN :
        /\ inning' = header
        /\ IF has_overs
           THEN tpc' = "overs" /\ ts_fresh' = TRUE
           ELSE tpc' = "store" /\ ts_fresh' = FALSE
    /\ UNCHANGED <<scores, innings_done, exceptTeam>>

\* for over in inning['overs']: if over.get('deliveries')
TeamNextOver ==
    /\ tpc = "overs"
    /\ \E has_deliveries \in BOOLEAN :
        IF has_deliveries
        THEN /\ Len(inning_seen) + BallsDone(innings_done) < MaxTeamBalls
             /\ tpc' = "deliveries"
             /\ ts_fresh' = TRUE
        ELSE tpc' = "overs" /\ ts_fresh' = FALSE
    /\ UNCHANGED <<scores, total_runs, total_wickets, inning, inning_seen,
                   innings_done, exceptTeam>>

\* for delivery in over['deliveries']: lines 424-427
TeamNextDelivery ==
    /\ tpc = "deliveries"
    /\ Len(inning_seen) + BallsDone(innings_done) < MaxTeamBalls
    /\ \E delivery \in TeamDeliveries :
        /\ total_runs' = TeamRunsAdd(total_runs, delivery)
        /\ total_wickets' = TeamWicketsAdd(total_wickets, delivery)
        /\ inning_seen' = Append(inning_seen, delivery)
    /\ ts_fresh' = FALSE
    /\ UNCHANGED <<scores, inning, innings_done, tpc, exceptTeam>>

\* the deliveries of the over are exhausted
TeamEndOver ==
    /\ tpc = "deliveries"
    /\ ~ts_fresh
    /\ tpc' = "overs"
    /\ UNCHANGED <<scores, total_runs, total_wickets, inning, inning_seen,
                   innings_done, ts_fresh, exceptTeam>>

\* the overs of the innings are exhausted
TeamEndInning ==
    /\ tpc = "overs"
    /\ ~ts_fresh
    /\ tpc' = "store"
    /\ UNCHANGED <<scores, total_runs, total_wickets, inning, inning_seen,
                   innings_done, ts_fresh, exceptTeam>>

\* lines 429-432
TeamStore ==
    /\ tpc = "store"
    /\ "team" \in DOMAIN inning
    /\ scores' = StoreScore(scores, inning["team"], total_runs, total_wickets)
    /\ innings_done' = Append(innings_done,
                              [team |-> inning["team"], deliveries |-> inning_seen])
    /\ tpc' = "innings"
    /\ UNCHANGED <<total_runs, total_wickets, inning, inning_seen, ts_fresh,
                   exceptTeam>>

\* line 429 on an innings without a team: KeyError leaves the function
TeamRaise ==
    /\ tpc = "store"
    /\ "team" \notin DOMAIN inning
    /\ tpc' = "raised"
    /\ UNCHANGED <<scores, total_runs, total_wickets, inning, inning_seen,
                   innings_done, ts_fresh, exceptTeam>>

\* line 434
TeamReturn ==
    /\ tpc = "innings"
    /\ tpc' = "return"
    /\ UNCHANGED <<scores, total_runs, total_wickets, inning, inning_seen,
                   innings_done, ts_fresh, exceptTeam>>

-----------------------------------------------------------------------------
(* Match records given to convert_to_cricguess_puzzle.                     *)

TeamNames == <<"T1", "T2", "T3", "T4", "T5">>

Without(d, k) == [x \in (DOMAIN d) \ {k} |-> d[x]]

Ball(b, w, r) == [batter |-> b, bowler |-> w, runs |-> Runs(r, r)]

Out(b, w, kind) ==
    [batter |-> b, bowler |-> w, runs |-> Runs(0, 0), wickets |-> <<Wicket(kind)>>]

Over(n, deliveries) == [over |-> n, deliveries |-> deliveries]

\* each option is the part of the info dict it contributes; EmptyDict is a
\* missing field
PomOptions ==
    {EmptyDict,
     [player_of_match |-> List(<<>>)],
     [player_of_match |-> List(<<N_AB2>>)],
     [player_of_match |-> List(<<N_X>>)],
     [player_of_match |-> List(<<N_C, N_AB2>>)],
     [player_of_match |-> Str(N_AB2)]}

TeamsOptions ==
    {EmptyDict, [teams |-> <<"T3", "T1">>]}
    \cup {[teams |-> SubSeq(TeamNames, 1, n)] : n \in 0..MaxTeams}

DatesOptions ==
    {EmptyDict, [dates |-> <<>>], [dates |-> <<"2011-04-02">>],
     [dates |-> <<"02/04/2011">>]}

PlayersOptions == {EmptyDict, [players |-> Roster1], [players |-> Roster2]}

VenueOptions ==
    {EmptyDict, [venue |-> "Wankhede Stadium", outcome |-> [winner |-> "T1"]]}

InningsOptions ==
    {EmptyDict,
     [innings |-> <<>>],
     \* one innings: AB bats, C bowls
     [innings |-> <<[team |-> "T1", overs |-> <<Over(0, <<Ball(N_AB2, N_C, 4)>>)>>]>>],
     \* two innings, both sides bat and bowl
     [innings |-> <<[team |-> "T1",
                     overs |-> <<Over(0, <<Ball(N_AB2, N_C, 4)>>),
                                 Over(1, <<Out(N_AB2, N_C, "bowled")>>)>>],
                    [team |-> "T2",
                     overs |-> <<Over(0, <<Ball(N_C, N_AB2, 6)>>)>>]>>],
     \* two innings in which nobody faces or bowls a delivery
     [innings |-> <<[team |-> "T1"],
                    [team |-> "T2", overs |-> <<[over |-> 0]>>]>>],
     \* an innings without a team
     [innings |-> <<[team |-> "T1", overs |-> <<Over(0, <<Ball(N_AB2, N_C, 4)>>)>>],
                    [overs |-> <<Over(0, <<Ball(N_C, N_AB2, 1)>>)>>]>>],
     \* a delivery without a bowler
     [innings |-> <<[team |-> "T1", overs |-> <<Over(0, <<Ball(N_AB2, N_C, 4)>>)>>],
                    [team |-> "T2", overs |-> <<Over(0, <<[batter |-> N_C]>>)>>]>>]}

SmallMatches ==
    {[info |-> p @@ t @@ d @@ r @@ v] @@ n :
        p \in PomOptions, t \in TeamsOptions, d \in DatesOptions,
        r \in PlayersOptions, v \in VenueOptions, n \in InningsOptions}

\* a full match: eight players take part, the player of the match scores a
\* four and later takes two wickets bowled and one run out
P(i) == <<LowerCase[i]>>

GoodRoster ==
    <<[team |-> "T1", players |-> <<P(1), P(2), P(3), P(4), P(9)>>],
      [team |-> "T2", players |-> <<P(5), P(6), P(7), P(8)>>]>>

FirstInnings(last_bowler) ==
    [team |-> "T1",
     overs |-> <<Over(0, <<Ball(P(1), P(5), 4), Ball(P(2), P(6), 1)>>),
                 Over(1, <<Ball(P(3), P(7), 0), Ball(P(4), last_bowler, 6)>>)>>]

SecondInnings ==
    [team |-> "T2",
     overs |-> <<Over(0, <<[batter |-> P(5), bowler |-> P(1), runs |-> Runs(0, 0),
                            wickets |-> <<Wicket("bowled"), Wicket("run out"),
                                          Wicket("bowled")>>]>>)>>]

GoodInfo ==
    [players |-> GoodRoster, player_of_match |-> List(<<P(1)>>),
     teams |-> <<"T1", "T2">>, dates |-> <<"2011-04-02">>,
     venue |-> "Wankhede Stadium", outcome |-> [winner |-> "T1"]]

GoodMatch == [info |-> GoodInfo, innings |-> <<FirstInnings(P(8)), SecondInnings>>]

\* only seven players take part
SevenMatch == [info |-> GoodInfo, innings |-> <<FirstInnings(P(7)), SecondInnings>>]

NoPomMatch == [GoodMatch EXCEPT !.info = Without(GoodInfo, "player_of_match")]

ThreeTeamsMatch == [GoodMatch EXCEPT !.info.teams = <<"T1", "T2", "T3">>]

\* a third innings by a third team: three team scores
ThreeInningsMatch ==
    [GoodMatch EXCEPT !.innings = Append(@, [team |-> "T3"])]

FullMatches == {GoodMatch, SevenMatch, NoPomMatch, ThreeTeamsMatch, ThreeInningsMatch}

Matches == SmallMatches \cup FullMatches \cup {[innings |-> <<>>]}

-----------------------------------------------------------------------------
(* convert_to_cricguess_puzzle applied to a match record.                  *)

\* self.starting_puzzle_id
starting_puzzle_id == 201

ConvIdle ==
    /\ cricsheet_data = EmptyDict
    /\ conv_result = None
    /\ cpc = "idle"

ConvInit ==
    /\ cricsheet_data \in Matches
    /\ conv_result = None
    /\ cpc = "call"

ConvCall ==
    /\ cpc = "call"
    /\ \E choice \in TriviaTemplates :
        conv_result' =
            Some(convert_to_cricguess_puzzle(cricsheet_data, starting_puzzle_id, choice))
    /\ cpc' = "done"
    /\ UNCHANGED <<cricsheet_data, exceptConv>>

-----------------------------------------------------------------------------
(* is_valid_puzzle applied to a puzzle.                                    *)

PerformancesOf(n) == [k \in {<<UpperCase[i]>> : i \in 1..n} |-> ZeroStat(k, "T1")]

TargetOptions ==
    {EmptyDict, [targetPlayer |-> <<>>], [targetPlayer |-> <<"A">>],
     [targetPlayer |-> <<"Z">>]}

PerformancesOptions ==
    {EmptyDict}
    \cup {[playerPerformances |-> PerformancesOf(n)] : n \in 0..MaxPerformers}
    \cup {[playerPerformances |-> Put(PerformancesOf(8), <<>>, ZeroStat(<<"7">>, "T1"))]}

PuzzleTeamsOptions ==
    {EmptyDict} \cup {[teams |-> SubSeq(TeamNames, 1, n)] : n \in 0..MaxTeams}

TeamScoresOf(n) == [t \in {TeamNames[i] : i \in 1..n} |-> [runs |-> 0, wickets |-> 0]]

TeamScoresOptions ==
    {EmptyDict} \cup {[team_scores |-> TeamScoresOf(n)] : n \in 0..MaxTeams}

PuzzleInputs ==
    {t @@ [matchData |-> perf @@ [scorecard |-> teams @@ sc]] :
        t \in TargetOptions, perf \in PerformancesOptions,
        teams \in PuzzleTeamsOptions, sc \in TeamScoresOptions}
    \cup {t @@ [matchData |-> perf] : t \in TargetOptions, perf \in PerformancesOptions}
    \cup TargetOptions

ValidIdle ==
    /\ puzzle = EmptyDict
    /\ valid_result = None
    /\ vpc = "idle"

ValidInit ==
    /\ puzzle \in PuzzleInputs
    /\ valid_result = None
    /\ vpc = "call"

ValidCall ==
    /\ vpc = "call"
    /\ valid_result' = Some(is_valid_puzzle(puzzle))
    /\ vpc' = "done"
    /\ UNCHANGED <<puzzle, exceptValid>>

-----------------------------------------------------------------------------
(* create_odi_puzzles: the loop over the selected files (lines 251-281).   *)
(* converted is the loop's local variable puzzle; skipped and errors count *)
(* the "Skipped" and "Error processing" lines the loop prints; attempts    *)
(* records, for each file tried, what became of it.                        *)

\* the files of the ./odi folder, and what json.load gives for each: a match
\* record, or a JSONDecodeError
OdiFolder == {"good.json", "seven.json", "nopom.json", "broken.json"}

Readable(filename) == filename # "broken.json"

JsonLoad(filename) ==
    CASE filename = "good.json" -> GoodMatch
      [] filename = "seven.json" -> SevenMatch
      [] filename = "nopom.json" -> NoPomMatch

\* selected_files = odi_files[:10]
SelectLimit == 10

FirstN(seq, n) == SubSeq(seq, 1, IF Len(seq) < n THEN Len(seq) ELSE n)

\* a plausible slip: the converted puzzle is kept without validation
AcceptsUnvalidated(p) == p # None

\* if puzzle and self.is_valid_puzzle(puzzle)
Accepts(p) == p # None /\ is_valid_puzzle(p[1]).value

BatchIdle ==
    /\ selected_files = <<>>
    /\ file_index = 0
    /\ converted = None
    /\ puzzles = <<>>
    /\ current_id = 0
    /\ processed_count = 0
    /\ skipped = 0
    /\ errors = 0
    /\ attempts = <<>>
    /\ bpc = "idle"

\* lines 241-252: the files shuffled, the first ten selected
BatchInit ==
    /\ \E odi_files \in UNION {[1..n -> OdiFolder] : n \in 0..MaxFiles} :
            selected_files = FirstN(odi_files, SelectLimit)
    /\ file_index = 0
    /\ converted = None
    /\ puzzles = <<>>
    /\ current_id = starting_puzzle_id
    /\ processed_count = 0
    /\ skipped = 0
    /\ errors = 0
    /\ attempts = <<>>
    /\ bpc = "loop"

NextFile == selected_files[file_index + 1]

\* lines 256-261: the file is read and converted
BatchConvert ==
    /\ bpc = "loop"
    /\ file_index < Len(selected_files)
    /\ Readable(NextFile)
    /\ \E choice \in TriviaTemplates :
        \E result \in {convert_to_cricguess_puzzle(JsonLoad(NextFile), current_id, choice)} :
            /\ result.raised = ""
            /\ converted' = result.value
    /\ bpc' = "check"
    /\ UNCHANGED <<selected_files, file_index, puzzles, current_id,
                   processed_count, skipped, errors, attempts, exceptBatch>>

\* lines 263-273: the puzzle is there and the validator accepts it
BatchCreate ==
    /\ bpc = "check"
    /\ Accepts(converted)
    /\ puzzles' = Append(puzzles, converted[1])
    /\ attempts' = Append(attempts,
            [file |-> NextFile, outcome |-> "created", puzzle |-> converted])
    /\ current_id' = current_id + 1
    /\ processed_count' = processed_count + 1
    /\ file_index' = file_index + 1
    /\ bpc' = "loop"
    /\ UNCHANGED <<selected_files, converted, skipped, errors, exceptBatch>>

\* lines 274-275: no puzzle, or a puzzle the validator rejects
BatchSkip ==
    /\ bpc = "check"
    /\ ~Accepts(converted)
    /\ attempts' = Append(attempts,
            [file |-> NextFile, outcome |-> "skipped", puzzle |-> converted])
    /\ skipped' = skipped + 1
    /\ file_index' = file_index + 1
    /\ bpc' = "loop"
    /\ UNCHANGED <<selected_files, converted, puzzles, current_id,
                   processed_count, errors, exceptBatch>>

\* lines 277-278: an exception while the file is read (or one that leaves the
\* conversion): the handler prints and the loop goes on
BatchError ==
    /\ bpc = "loop"
    /\ file_index < Len(selected_files)
    /\ \/ ~Readable(NextFile)
       \/ /\ Readable(NextFile)
          /\ \E choice \in TriviaTemplates :
                convert_to_cricguess_puzzle(JsonLoad(NextFile), current_id, choice).raised # ""
    /\ attempts' = Append(attempts,
            [file |-> NextFile, outcome |-> "error", puzzle |-> None])
    /\ errors' = errors + 1
    /\ file_index' = file_index + 1
    /\ UNCHANGED <<selected_files, converted, puzzles, current_id,
                   processed_count, skipped, bpc, exceptBatch>>

\* lines 280-281
BatchReturn ==
    /\ bpc = "loop"
    /\ file_index = Len(selected_files)
    /\ bpc' = "return"
    /\ UNCHANGED <<selected_files, file_index, converted, puzzles, current_id,
                   processed_count, skipped, errors, attempts, exceptBatch>>

-----------------------------------------------------------------------------
(* update_match_puzzles_json, one step per `if` of the loop body.  Puzzle   *)
(* records are objects: objects[r] is the dict behind reference r, the      *)
(* lists hold references, and puzzles_file is the content of               *)
(* match_puzzles.json (None while the file does not exist).                *)

PuzzleTags == <<"A", "B", "C", "D", "E">>

\* the k-th puzzle of the existing file, with the id it was stored under
IplPuzzle(k, teams) ==
    [id |-> 100 + k,
     targetPlayer |-> <<"I", PuzzleTags[k]>>,
     matchData |-> [scorecard |-> [teams |-> teams]]]

\* the k-th puzzle create_odi_puzzles returned: ids from starting_puzzle_id,
\* two teams (is_valid_puzzle accepted it)
OdiPuzzle(k) ==
    [id |-> starting_puzzle_id + k - 1,
     targetPlayer |-> <<"O", PuzzleTags[k]>>,
     matchData |-> [scorecard |-> [teams |-> <<"T1", "T2">>]]]

\* match_puzzles.json before the call: absent, or a list of puzzles (one of
\* them may name a single team) with or without metadata
ExistingFiles ==
    {None} \cup
    UNION {{Some([puzzles |-> [k \in 1..n |-> IplPuzzle(k, teams[k])],
                  metadata |-> md]) :
                teams \in [1..n -> {<<"T1", "T2">>, <<"T1">>}],
                md \in {EmptyDict, [version |-> "1.0"]}} :
           n \in 0..MaxIpl}

Max(a, b) == IF a > b THEN a ELSE b

\* a plausible slip: the id written into the record of the input list itself
no_copy(objs, ref) == [objects |-> objs, ref |-> ref]

\* ipl_puzzles[i].copy(): a new dict with the same items
copy(objs, ref) == [objects |-> Append(objs, objs[ref]), ref |-> Len(objs) + 1]

\* lines 470-472 and 480-482: copy the puzzle, give the copy the current id,
\* append it
AppendRenumbered(ref) ==
    LET c == copy(objects, ref)
    IN  /\ objects' = [c.objects EXCEPT ![c.ref].id = merge_id]
        /\ alternating_puzzles' = Append(alternating_puzzles, c.ref)

\* the print of lines 473-475 and 483-485 reads teams[0] and teams[1]
PrintRaises(ref) == Len(objects[ref].matchData.scorecard.teams) < 2

MergeIdle ==
    /\ puzzles_file = None
    /\ objects = <<>>
    /\ ipl_puzzles = <<>>
    /\ odi_puzzles = <<>>
    /\ alternating_puzzles = <<>>
    /\ merge_i = 0
    /\ merge_id = 0
    /\ mpc = "idle"

\* lines 441-461: the file is read (or taken as empty), the two lists named,
\* current_id = 1
MergeInit ==
    \E file \in ExistingFiles, m \in 0..MaxOdi :
        LET existing == IF file = None THEN <<>> ELSE file[1].puzzles
        IN  /\ puzzles_file = file
            /\ objects = existing \o [k \in 1..m |-> OdiPuzzle(k)]
            /\ ipl_puzzles = [k \in 1..Len(existing) |-> k]
            /\ odi_puzzles = [k \in 1..m |-> Len(existing) + k]
            /\ alternating_puzzles = <<>>
            /\ merge_i = 0
            /\ merge_id = 1
            /\ mpc = "ipl"

\* lines 467-476: i < max_puzzles; the IPL puzzle of this round, if there is one
MergeIpl ==
    /\ mpc = "ipl"
    /\ merge_i < Max(Len(ipl_puzzles), Len(odi_puzzles))
    /\ IF merge_i < Len(ipl_puzzles)
       THEN /\ ~PrintRaises(ipl_puzzles[merge_i + 1])
            /\ AppendRenumbered(ipl_puzzles[merge_i + 1])
            /\ merge_id' = merge_id + 1
       ELSE UNCHANGED <<objects, alternating_puzzles, merge_id>>
    /\ mpc' = "odi"
    /\ UNCHANGED <<puzzles_file, ipl_puzzles, odi_puzzles, merge_i, exceptMerge>>

\* lines 470-475 and 533-535: the copy is appended, then the print fails on a
\* puzzle with fewer than two teams; the exception is printed and raised
\* again, and the file is not written
MergeRaise ==
    /\ mpc = "ipl"
    /\ merge_i < Len(ipl_puzzles)
    /\ PrintRaises(ipl_puzzles[merge_i + 1])
    /\ AppendRenumbered(ipl_puzzles[merge_i + 1])
    /\ mpc' = "raised"
    /\ UNCHANGED <<puzzles_file, ipl_puzzles, odi_puzzles, merge_i, merge_id,
                   exceptMerge>>

\* lines 478-486: the ODI puzzle of this round, if there is one
MergeOdi ==
    /\ mpc = "odi"
    /\ IF merge_i < Len(odi_puzzles)
       THEN /\ AppendRenumbered(odi_puzzles[merge_i + 1])
            /\ merge_id' = merge_id + 1
       ELSE UNCHANGED <<objects, alternating_puzzles, merge_id>>
    /\ merge_i' = merge_i + 1
    /\ mpc' = "ipl"
    /\ UNCHANGED <<puzzles_file, ipl_puzzles, odi_puzzles, exceptMerge>>

\* lines 489-509: the existing metadata, overridden by the new entries
UpdatedMetadata ==
    [total_puzzles |-> Len(alternating_puzzles),
     puzzles_created |-> Len(alternating_puzzles),
     last_updated |-> "now",
     puzzle_pattern |-> "alternating_ipl_odi",
     ipl_puzzles_count |-> Len(ipl_puzzles),
     odi_puzzles_count |-> Len(odi_puzzles),
     international_players_added |-> new_players_added,
     sequence_info |-> "IPL (odd IDs) alternating with ODI (even IDs)"]
    @@ (IF puzzles_file = None THEN EmptyDict ELSE puzzles_file[1].metadata)

\* lines 488-513: after the last round the list and the metadata are written
MergeWrite ==
    /\ mpc = "ipl"
    /\ merge_i = Max(Len(ipl_puzzles), Len(odi_puzzles))
    /\ puzzles_file' =
            Some([puzzles |-> [k \in 1..Len(alternating_puzzles) |->
                                    objects[alternating_puzzles[k]]],
                  metadata |-> UpdatedMetadata])
    /\ mpc' = "done"
    /\ UNCHANGED <<objects, ipl_puzzles, odi_puzzles, alternating_puzzles,
                   merge_i, merge_id, exceptMerge>>

-----------------------------------------------------------------------------
(* update_players_json, called twice with the same new_players, one step    *)
(* per item of new_players.  players_file is the content of players.json   *)
(* (None while the file does not exist), read_players what the call in      *)
(* progress read from it, todo the keys the loop has yet to visit.          *)

PlayerKeys == {<<"A", "B">>, <<"C">>, <<"D">>, <<"E">>}

\* the keys of the stores and of new_players: MaxPlayers of them
KeysUsed == CHOOSE ks \in SUBSET PlayerKeys :
                /\ Cardinality(ks) = MaxPlayers
                /\ MaxPlayers >= 1 => <<"A", "B">> \in ks
                /\ MaxPlayers >= 2 => <<"C">> \in ks
                /\ MaxPlayers >= 3 => <<"D">> \in ks

\* records of players.json: a stored player may lack the teams list
StoredRecords ==
    {[fullName |-> "stored name", country |-> "India"]}
    \cup {[fullName |-> "stored name", country |-> "India", teams |-> ts] :
            ts \in {<<"T1">>, <<"T1", "T2">>}}

\* records extract_players_from_odi_files builds: teams is always there
NewRecords ==
    {[fullName |-> "new name", country |-> "Kenya", teams |-> ts] :
        ts \in {<<"T1">>, <<"T2">>, <<"T2", "T3">>}}

\* the dicts with some of the keys, each with one of the records
DictsOf(keys, records) == UNION {[ks -> records] : ks \in SUBSET keys}

\* list(a set): its elements once each, in an order not fixed by the code
ListOfSet(set) ==
    {order \in [1..Cardinality(set) -> set] : Elements(order) = set}

\* a plausible slip: the stored teams replaced by the new ones
new_teams_only(existing_teams, new_teams) == new_teams

\* existing_teams | new_teams
merged_teams(existing_teams, new_teams) == existing_teams \cup new_teams

\* the state after __init__: nothing read, new_players_added = 0
PlayersIdle ==
    /\ players_file = None
    /\ new_players = EmptyDict
    /\ existing_players = EmptyDict
    /\ read_players = EmptyDict
    /\ todo = {}
    /\ added_count = 0
    /\ updated_count = 0
    /\ new_players_added = 0
    /\ calls = 0
    /\ ppc = "idle"

PlayersInit ==
    /\ players_file \in {None} \cup {Some(d) : d \in DictsOf(KeysUsed, StoredRecords)}
    /\ new_players \in DictsOf(KeysUsed, NewRecords)
    /\ existing_players = EmptyDict
    /\ read_players = EmptyDict
    /\ todo = {}
    /\ added_count = 0
    /\ updated_count = 0
    /\ new_players_added = 0
    /\ calls = 0
    /\ ppc = "start"

\* lines 186-199: the store is read, or taken as empty; the counters start at 0
PlayersRead ==
    /\ ppc = "start"
    /\ existing_players' = (IF players_file = None THEN EmptyDict ELSE players_file[1])
    /\ read_players' = existing_players'
    /\ todo' = DOMAIN new_players
    /\ added_count' = 0
    /\ updated_count' = 0
    /\ calls' = calls + 1
    /\ ppc' = "loop"
    /\ UNCHANGED <<players_file, new_players, new_players_added, exceptPlayers>>

\* lines 201-204: a key the store does not have
PlayersAdd ==
    /\ ppc = "loop"
    /\ \E key \in todo :
        /\ key \notin DOMAIN existing_players
        /\ existing_players' = Put(existing_players, key, new_players[key])
        /\ todo' = todo \ {key}
    /\ added_count' = added_count + 1
    /\ UNCHANGED <<players_file, new_players, read_players, updated_count,
                   new_players_added, calls, ppc, exceptPlayers>>

\* lines 205-213: a key the store has; its teams become the union when the
\* new record names a team the stored one does not
PlayersUpdate ==
    /\ ppc = "loop"
    /\ \E key \in todo :
        /\ key \in DOMAIN existing_players
        /\ todo' = todo \ {key}
        /\ LET existing_teams == Elements(Get(existing_players[key], "teams", <<>>))
               new_teams == Elements(new_players[key]["teams"])
           IN  IF new_teams \ existing_teams # {}
               THEN /\ \E teams \in ListOfSet(merged_teams(existing_teams, new_teams)) :
                        existing_players' =
                            Put(existing_players, key,
                                Put(existing_players[key], "teams", teams))
                    /\ updated_count' = updated_count + 1
               ELSE UNCHANGED <<existing_players, updated_count>>
    /\ UNCHANGED <<players_file, new_players, read_players, added_count,
                   new_players_added, calls, ppc, exceptPlayers>>

\* lines 215-219: the store is written and the number added kept; the second
\* call starts from the file the first one wrote
PlayersWrite ==
    /\ ppc = "loop"
    /\ todo = {}
    /\ players_file' = Some(existing_players)
    /\ new_players_added' = added_count
    /\ ppc' = (IF calls < 2 THEN "start" ELSE "done")
    /\ UNCHANGED <<new_players, existing_players, read_players, todo,
                   added_count, updated_count, calls, exceptPlayers>>

-----------------------------------------------------------------------------
(* Specifications: one per function, the others idle.                      *)

InitKey ==
    KeyInit /\ StatsIdle /\ TeamIdle /\ ConvIdle /\ ValidIdle /\ BatchIdle
    /\ MergeIdle
    /\ PlayersIdle

NextKey == KeyCall \/ KeyCallAgain

SpecKey == InitKey /\ [][NextKey]_vars

InitStats ==
    KeyIdle /\ StatsInit /\ TeamIdle /\ ConvIdle /\ ValidIdle /\ BatchIdle
    /\ MergeIdle
    /\ PlayersIdle

NextStats ==
    \/ StatsInitPlayers
    \/ StatsNextInning
    \/ StatsNextOver
    \/ StatsNextDelivery
    \/ StatsEndOver
    \/ StatsEndInning
    \/ StatsReturn

SpecStats == InitStats /\ [][NextStats]_vars

InitTeam ==
    KeyIdle /\ StatsIdle /\ TeamInit /\ ConvIdle /\ ValidIdle /\ BatchIdle
    /\ MergeIdle
    /\ PlayersIdle

NextTeam ==
    \/ TeamNextInning
    \/ TeamNextOver
    \/ TeamNextDelivery
    \/ TeamEndOver
    \/ TeamEndInning
    \/ TeamStore
    \/ TeamRaise
    \/ TeamReturn

SpecTeam == InitTeam /\ [][NextTeam]_vars

InitConvert ==
    KeyIdle /\ StatsIdle /\ TeamIdle /\ ConvInit /\ ValidIdle /\ BatchIdle
    /\ MergeIdle
    /\ PlayersIdle

NextConvert == ConvCall

SpecConvert == InitConvert /\ [][NextConvert]_vars

InitValid ==
    KeyIdle /\ StatsIdle /\ TeamIdle /\ ConvIdle /\ ValidInit /\ BatchIdle
    /\ MergeIdle
    /\ PlayersIdle

NextValid == ValidCall

SpecValid == InitValid /\ [][NextValid]_vars

Init ==
    KeyIdle /\ StatsIdle /\ TeamIdle /\ ConvIdle /\ ValidIdle /\ BatchInit
    /\ MergeIdle
    /\ PlayersIdle

Next ==
    \/ BatchConvert
    \/ BatchCreate
    \/ BatchSkip
    \/ BatchError
    \/ BatchReturn

Spec == Init /\ [][Next]_vars

InitMerge ==
    KeyIdle /\ StatsIdle /\ TeamIdle /\ ConvIdle /\ ValidIdle /\ BatchIdle
    /\ MergeInit
    /\ PlayersIdle

NextMerge ==
    \/ MergeIpl
    \/ MergeRaise
    \/ MergeOdi
    \/ MergeWrite

SpecMerge == InitMerge /\ [][NextMerge]_vars

InitPlayers ==
    KeyIdle /\ StatsIdle /\ TeamIdle /\ ConvIdle /\ ValidIdle /\ BatchIdle
    /\ MergeIdle
    /\ PlayersInit

NextPlayers ==
    \/ PlayersRead
    \/ PlayersAdd
    \/ PlayersUpdate
    \/ PlayersWrite

SpecPlayers == InitPlayers /\ [][NextPlayers]_vars

-----------------------------------------------------------------------------
(* Properties.                                                             *)

RECURSIVE SeqSum(_)
SeqSum(numbers) == IF numbers = <<>> THEN 0 ELSE Head(numbers) + SeqSum(Tail(numbers))

AsciiLetters == Elements(LowerCase) \cup Elements(UpperCase)

\* the positions of a name that hold a letter
LetterPositions(name) == {p \in 1..Len(name) : name[p] \in AsciiLetters}

\* u is the upper-case form of the letter c
IsUpperOf(u, c) ==
    \E i \in 1..Len(UpperCase) : (c = LowerCase[i] \/ c = UpperCase[i]) /\ u = UpperCase[i]

\* C8: create_player_key is total; the key is exactly the letters of the name,
\* in their order, each in upper case, so that no whitespace, punctuation or
\* digit survives; the key of a key is the key itself; a name without a letter
\* (the empty name included) gives the empty key.
KeyDerivation ==
    kpc \in {"called", "done"} =>
        LET key == player_key[1]
            letters == LetterPositions(player_name)
        IN  /\ Len(key) = Cardinality(letters)
            /\ \A p \in letters :
                    IsUpperOf(key[Cardinality({q \in letters : q <= p})], player_name[p])
            /\ \A i \in 1..Len(key) : key[i] \in Elements(UpperCase)
            /\ (letters = {} => key = <<>>)
            /\ (kpc = "done" => key_again = player_key)

\* a name of mixed case with whitespace: its key, and the key of its key
KeyDerivationWitness ==
    /\ kpc = "done"
    /\ player_name = <<"a", " ", "B">>
    /\ player_key = Some(<<"A", "B">>)
    /\ key_again = Some(<<"A", "B">>)

WicketsOf(delivery) == IF "wickets" \in DOMAIN delivery THEN delivery["wickets"] ELSE <<>>

EventKind(wicket) == IF "kind" \in DOMAIN wicket THEN wicket["kind"] ELSE PyNone

\* the wicket events of a delivery that are neither a run out nor a retirement
CreditedOn(delivery) ==
    Cardinality({j \in 1..Len(WicketsOf(delivery)) :
                    /\ EventKind(WicketsOf(delivery)[j]) # "run out"
                    /\ EventKind(WicketsOf(delivery)[j]) # "retired hurt"})

\* those events over the deliveries bowled by key k
CreditedTo(k) ==
    SeqSum([i \in 1..Len(seen) |->
                IF create_player_key(seen[i]["bowler"]) = k THEN CreditedOn(seen[i]) ELSE 0])

\* all wicket events over the deliveries bowled by key k
EventsBowledBy(k) ==
    SeqSum([i \in 1..Len(seen) |->
                IF create_player_key(seen[i]["bowler"]) = k
                THEN Len(WicketsOf(seen[i])) ELSE 0])

\* C4: after any number of deliveries, the wickets_in_match of every roster
\* key is the number of wicket events, on the deliveries bowled by that key,
\* whose kind is neither "run out" nor "retired hurt": such an event adds
\* nothing, every other event adds exactly one; the returned map holds the
\* same counts.
WicketCredit ==
    /\ \A k \in DOMAIN player_stats :
            player_stats[k].wickets_in_match = CreditedTo(k)
    /\ spc = "return" =>
            \A k \in DOMAIN played_players[1] :
                played_players[1][k].wickets_in_match = CreditedTo(k)

\* a bowler with three wicket events, one of them a run out, credited with two
WicketCreditWitness ==
    \E k \in DOMAIN player_stats :
        /\ EventsBowledBy(k) = 3
        /\ player_stats[k].wickets_in_match = 2
        /\ \E i \in 1..Len(seen) :
                /\ create_player_key(seen[i]["bowler"]) = k
                /\ \E j \in 1..Len(WicketsOf(seen[i])) :
                        EventKind(WicketsOf(seen[i])[j]) = "run out"

\* the keys of the names of info.players
RosterKeys ==
    UNION {{create_player_key(name) : name \in Elements(entry.players)} :
            entry \in Elements(info["players"])}

\* some delivery read names key k as batter or as bowler
Named(k) ==
    \E i \in 1..Len(seen) :
        \/ create_player_key(seen[i]["batter"]) = k
        \/ create_player_key(seen[i]["bowler"]) = k

\* C5: every entry of the map calculate_player_stats returns has
\* played_in_match true and a key that is the key of a name of info.players;
\* and a roster key is in the map exactly when some delivery names it as batter
\* or as bowler.
ParticipationFilter ==
    spc = "return" =>
        /\ \A k \in DOMAIN played_players[1] :
                played_players[1][k].played_in_match /\ k \in RosterKeys
        /\ \A k \in RosterKeys : k \in DOMAIN played_players[1] <=> Named(k)

\* a return with one roster member in the map, another left out, and a
\* delivery that names somebody outside the roster
ParticipationFilterWitness ==
    /\ spc = "return"
    /\ \E k \in RosterKeys : k \in DOMAIN played_players[1]
    /\ \E k \in RosterKeys : k \notin DOMAIN played_players[1]
    /\ \E i \in 1..Len(seen) : create_player_key(seen[i]["batter"]) \notin RosterKeys

BatterRuns(delivery) ==
    IF "runs" \in DOMAIN delivery /\ "batter" \in DOMAIN delivery["runs"]
    THEN delivery["runs"]["batter"] ELSE 0

\* the deliveries read in which key k is the batter
FacedBy(k) == {i \in 1..Len(seen) : create_player_key(seen[i]["batter"]) = k}

\* C9: after any number of deliveries, for every roster key, runs_in_match is
\* the sum of runs.batter over the deliveries it faced, balls_faced their
\* number, boundaries.fours the number of them with batter runs exactly 4 and
\* boundaries.sixes the number with batter runs exactly 6.
BattingTotals ==
    \A k \in DOMAIN player_stats :
        /\ player_stats[k].runs_in_match =
                SeqSum([i \in 1..Len(seen) |->
                            IF i \in FacedBy(k) THEN BatterRuns(seen[i]) ELSE 0])
        /\ player_stats[k].balls_faced = Cardinality(FacedBy(k))
        /\ player_stats[k].boundaries.fours =
                Cardinality({i \in FacedBy(k) : BatterRuns(seen[i]) = 4})
        /\ player_stats[k].boundaries.sixes =
                Cardinality({i \in FacedBy(k) : BatterRuns(seen[i]) = 6})

\* a batter who faced two deliveries, a four and a six
BattingTotalsWitness ==
    \E k \in DOMAIN player_stats :
        /\ player_stats[k].runs_in_match = 10
        /\ player_stats[k].balls_faced = 2
        /\ player_stats[k].boundaries = [fours |-> 1, sixes |-> 1]

BattingFields(stat) == <<stat.runs_in_match, stat.balls_faced, stat.boundaries>>

BowlingFields(stat) == <<stat.balls_bowled, stat.wickets_in_match>>

\* C10: a delivery whose batter (bowler) key is not a roster key adds no
\* entry to player_stats and changes no batting (bowling) field of any player,
\* while the other role, when its key is a roster key, is accumulated as
\* usual; a step that reads no delivery (an innings with no overs, an over
\* with no deliveries, the end of a list) changes no PlayerStat.
UnknownRoleIgnored ==
    [][/\ spc # "start" => DOMAIN player_stats' = DOMAIN player_stats
       /\ spc # "start" /\ seen' = seen => player_stats' = player_stats
       /\ Len(seen') = Len(seen) + 1 =>
            LET delivery == seen'[Len(seen')]
                batter_key == create_player_key(delivery["batter"])
                bowler_key == create_player_key(delivery["bowler"])
            IN  /\ batter_key \notin RosterKeys =>
                    /\ \A k \in DOMAIN player_stats :
                            BattingFields(player_stats'[k]) = BattingFields(player_stats[k])
                    /\ bowler_key \in RosterKeys =>
                            /\ player_stats'[bowler_key].played_in_match
                            /\ player_stats'[bowler_key].balls_bowled
                                    = player_stats[bowler_key].balls_bowled + 1
                            /\ player_stats'[bowler_key].wickets_in_match
                                    = player_stats[bowler_key].wickets_in_match
                                        + CreditedOn(delivery)
                /\ bowler_key \notin RosterKeys =>
                    /\ \A k \in DOMAIN player_stats :
                            BowlingFields(player_stats'[k]) = BowlingFields(player_stats[k])
                    /\ batter_key \in RosterKeys =>
                            /\ player_stats'[batter_key].played_in_match
                            /\ player_stats'[batter_key].balls_faced
                                    = player_stats[batter_key].balls_faced + 1
                            /\ player_stats'[batter_key].runs_in_match
                                    = player_stats[batter_key].runs_in_match
                                        + BatterRuns(delivery)
      ]_vars

\* a delivery by an unknown batter to a roster bowler has been read: the
\* bowler has bowled one ball that took a wicket, nobody has faced one, and
\* the map still holds the roster keys only
UnknownRoleIgnoredWitness ==
    /\ Len(seen) = 1
    /\ create_player_key(seen[1]["batter"]) \notin RosterKeys
    /\ create_player_key(seen[1]["bowler"]) \in RosterKeys
    /\ DOMAIN player_stats = RosterKeys
    /\ \A k \in DOMAIN player_stats : player_stats[k].balls_faced = 0
    /\ \E k \in DOMAIN player_stats :
            player_stats[k].balls_bowled = 1 /\ player_stats[k].wickets_in_match = 1

TotalOf(delivery) ==
    IF "runs" \in DOMAIN delivery /\ "total" \in DOMAIN delivery["runs"]
    THEN delivery["runs"]["total"] ELSE 0

RunsIn(deliveries) == SeqSum([i \in 1..Len(deliveries) |-> TotalOf(deliveries[i])])

WicketEventsIn(deliveries) ==
    SeqSum([i \in 1..Len(deliveries) |-> Len(WicketsOf(deliveries[i]))])

\* C6: while an innings is summed the running totals are the sum of the
\* runs.total and the number of the wicket events, of any kind, of its
\* deliveries read so far; the entry stored for an innings holds the sum of
\* runs.total over the deliveries of that innings and the number of its wicket
\* events; an innings with no overs or no deliveries is stored as 0 and 0.
TeamScoreAdditivity ==
    /\ tpc \in {"overs", "deliveries", "store"} =>
            /\ total_runs = RunsIn(inning_seen)
            /\ total_wickets = WicketEventsIn(inning_seen)
    /\ innings_done # <<>> =>
            LET last == innings_done[Len(innings_done)]
            IN  /\ last.team \in DOMAIN scores
                /\ scores[last.team] =
                        [runs |-> RunsIn(last.deliveries),
                         wickets |-> WicketEventsIn(last.deliveries)]
                /\ last.deliveries = <<>> =>
                        scores[last.team] = [runs |-> 0, wickets |-> 0]

\* an innings of three deliveries stored with 5 runs and 3 wickets, one of
\* them a run out and one a retirement
TeamScoreAdditivityWitness ==
    /\ tpc = "innings"
    /\ innings_done # <<>>
    /\ LET last == innings_done[Len(innings_done)]
       IN  /\ Len(last.deliveries) = 3
           /\ scores[last.team] = [runs |-> 5, wickets |-> 3]
           /\ \E i \in 1..3 : \E j \in 1..Len(WicketsOf(last.deliveries[i])) :
                    EventKind(WicketsOf(last.deliveries[i])[j]) = "run out"

\* the four conditions on the puzzle given to is_valid_puzzle; a condition
\* whose field is missing does not hold
PerformancesPresent ==
    /\ "matchData" \in DOMAIN puzzle
    /\ "playerPerformances" \in DOMAIN puzzle["matchData"]

ScorecardPresent ==
    /\ "matchData" \in DOMAIN puzzle
    /\ "scorecard" \in DOMAIN puzzle["matchData"]

TargetCondition ==
    /\ "targetPlayer" \in DOMAIN puzzle
    /\ PerformancesPresent
    /\ puzzle["targetPlayer"] # <<>>
    /\ puzzle["targetPlayer"] \in DOMAIN puzzle["matchData"]["playerPerformances"]

TeamsCondition ==
    /\ ScorecardPresent
    /\ "teams" \in DOMAIN puzzle["matchData"]["scorecard"]
    /\ Len(puzzle["matchData"]["scorecard"]["teams"]) = 2

PlayersCondition ==
    /\ PerformancesPresent
    /\ Cardinality(DOMAIN puzzle["matchData"]["playerPerformances"]) >= 8

ScoresCondition ==
    /\ ScorecardPresent
    /\ "team_scores" \in DOMAIN puzzle["matchData"]["scorecard"]
    /\ Cardinality(DOMAIN puzzle["matchData"]["scorecard"]["team_scores"]) = 2

\* C1: is_valid_puzzle returns a true value exactly when the four conditions
\* hold together (target player non-empty and a key of playerPerformances, two
\* teams, at least eight performances, two team scores); a puzzle that breaks
\* one of them, or lacks a field one of them reads, gets a false value, and no
\* exception leaves the function.
ValidatorConjunction ==
    vpc = "done" =>
        /\ valid_result[1].raised = ""
        /\ valid_result[1].value <=>
                (TargetCondition /\ TeamsCondition /\ PlayersCondition /\ ScoresCondition)

\* a puzzle with exactly eight performances has been accepted
ValidatorConjunctionWitness ==
    /\ vpc = "done"
    /\ valid_result[1].value
    /\ Cardinality(DOMAIN puzzle["matchData"]["playerPerformances"]) = 8

InfoOf(data) == Get(data, "info", EmptyDict)

\* info.player_of_match is missing, is no list, or is an empty list
PomMissingOrEmpty(data) ==
    \/ "player_of_match" \notin DOMAIN InfoOf(data)
    \/ InfoOf(data)["player_of_match"].type # "list"
    \/ InfoOf(data)["player_of_match"].items = <<>>

TeamsLength(data) == Len(Get(InfoOf(data), "teams", <<>>))

NoInnings(data) == Get(data, "innings", <<>>) = <<>>

\* C2, as claimed: the conversion returns None, without raising, whenever the
\* player-of-match list is missing or empty, the teams list is not a list of
\* two, or the match has no innings; so no puzzle is returned for a teams list
\* of length 0, 1, 3 or more.
ConversionPreconditions ==
    cpc = "done" =>
        ((\/ PomMissingOrEmpty(cricsheet_data)
          \/ TeamsLength(cricsheet_data) # 2
          \/ NoInnings(cricsheet_data))
            => conv_result[1] = Returned(None))

\* C2, as amended: the conversion returns None, without raising, whenever the
\* player-of-match list is missing or empty, the teams list is missing or has
\* fewer than two names, or the match has no innings; a teams list of three or
\* more names does not fail the conversion, and the puzzle it then returns
\* is rejected by is_valid_puzzle.
ConversionPreconditionsAmended ==
    cpc = "done" =>
        /\ (\/ PomMissingOrEmpty(cricsheet_data)
            \/ TeamsLength(cricsheet_data) < 2
            \/ NoInnings(cricsheet_data))
                => conv_result[1] = Returned(None)
        /\ conv_result[1].raised = ""
        /\ (conv_result[1].value # None /\ TeamsLength(cricsheet_data) # 2)
                => ~is_valid_puzzle(conv_result[1].value[1]).value

\* a match that is complete but for its teams list of one name: the
\* IndexError of the scorecard text is caught and None returned
ConversionPreconditionsWitness ==
    /\ cpc = "done"
    /\ ~PomMissingOrEmpty(cricsheet_data)
    /\ ~NoInnings(cricsheet_data)
    /\ TeamsLength(cricsheet_data) = 1
    /\ ConvertBody(cricsheet_data, starting_puzzle_id, 1).raised = "IndexError"
    /\ conv_result[1] = Returned(None)

\* calculate_player_stats returns a map on this match record
StatsComputable(data) ==
    /\ "info" \in DOMAIN data
    /\ "innings" \in DOMAIN data
    /\ ~calculate_player_stats_raises(data)

\* the key of the first entry of info.player_of_match
FirstPomKey(data) == create_player_key(InfoOf(data)["player_of_match"].items[1])

\* C3: a puzzle is returned only if the key of the first player of the match
\* is a key of the map calculate_player_stats returns (a roster key that some
\* delivery names as batter or bowler), and the puzzle's targetPlayer is that
\* key, whatever the later entries of the list; if that key is not in the map
\* the conversion returns None.
TargetIsFirstPlayerOfMatch ==
    cpc = "done" =>
        /\ conv_result[1].value # None =>
            /\ ~PomMissingOrEmpty(cricsheet_data)
            /\ StatsComputable(cricsheet_data)
            /\ FirstPomKey(cricsheet_data) \in DOMAIN calculate_player_stats(cricsheet_data)
            /\ \E d \in DeliveriesOf(cricsheet_data["innings"]) :
                    \/ create_player_key(d["batter"]) = FirstPomKey(cricsheet_data)
                    \/ create_player_key(d["bowler"]) = FirstPomKey(cricsheet_data)
            /\ conv_result[1].value[1].targetPlayer = FirstPomKey(cricsheet_data)
        /\ (/\ ~PomMissingOrEmpty(cricsheet_data)
            /\ StatsComputable(cricsheet_data)
            /\ FirstPomKey(cricsheet_data)
                    \notin DOMAIN calculate_player_stats(cricsheet_data))
                => conv_result[1] = Returned(None)

\* two players of the match: the puzzle's target is the first
TargetIsFirstPlayerOfMatchWitness ==
    /\ cpc = "done"
    /\ conv_result[1].value # None
    /\ cricsheet_data["info"]["player_of_match"] = List(<<N_C, N_AB2>>)
    /\ conv_result[1].value[1].targetPlayer = <<"C">>

\* the attempt's conversion gave a puzzle and is_valid_puzzle accepts it
ConvertedAndValid(attempt) ==
    attempt.puzzle # None /\ is_valid_puzzle(attempt.puzzle[1]).value

\* C7: the loop tries every selected file in order, whatever became of the
\* earlier ones (no puzzle, a rejected puzzle, an exception); the returned
\* list holds, in order, exactly the puzzles that the conversion returned and
\* is_valid_puzzle accepted; and the puzzles kept, the files skipped and the
\* files in error add up to the files tried, which at the return are all the
\* selected files.
BatchContinues ==
    /\ Len(attempts) = file_index
    /\ \A i \in 1..Len(attempts) : attempts[i].file = selected_files[i]
    /\ LET kept == SelectSeq(attempts, ConvertedAndValid)
       IN  puzzles = [i \in 1..Len(kept) |-> kept[i].puzzle[1]]
    /\ Len(puzzles) + skipped + errors = file_index
    /\ bpc = "return" => file_index = Len(selected_files)

\* three files: the first cannot be read, the second is skipped, the third
\* gives the one puzzle returned
BatchContinuesWitness ==
    /\ bpc = "return"
    /\ Len(attempts) = 3
    /\ attempts[1].outcome = "error"
    /\ attempts[2].outcome = "skipped"
    /\ attempts[3].outcome = "created"
    /\ Len(puzzles) = 1
    /\ errors = 1
    /\ skipped = 1

\* the teams of the innings whose score has been stored
TeamsDone == {innings_done[i].team : i \in 1..Len(innings_done)}

\* the last stored innings of team t
LastInningsOf(t) ==
    innings_done[CHOOSE i \in 1..Len(innings_done) :
                    /\ innings_done[i].team = t
                    /\ \A j \in (i + 1)..Len(innings_done) : innings_done[j].team # t]

\* C11: scores has one entry for each distinct team name among the innings
\* stored, and the entry of a team holds the runs and wickets of the last
\* innings of that team only; an earlier innings of the same team is
\* overwritten, not added.
TeamLastWriteWins ==
    /\ DOMAIN scores = TeamsDone
    /\ Cardinality(DOMAIN scores) = Cardinality(TeamsDone)
    /\ \A t \in TeamsDone :
            scores[t] = [runs |-> RunsIn(LastInningsOf(t).deliveries),
                         wickets |-> WicketEventsIn(LastInningsOf(t).deliveries)]

\* a team batted twice, 4 runs and then 1 run with a run out: the one entry
\* returned holds 1 run and 1 wicket
TeamLastWriteWinsWitness ==
    /\ tpc = "return"
    /\ Len(innings_done) = 2
    /\ innings_done[1].team = innings_done[2].team
    /\ RunsIn(innings_done[1].deliveries) = 4
    /\ Cardinality(DOMAIN scores) = 1
    /\ scores[innings_done[2].team] = [runs |-> 1, wickets |-> 1]

\* a puzzle record without its id
Content(record) == [targetPlayer |-> record.targetPlayer, matchData |-> record.matchData]

IplContents == [k \in 1..Len(ipl_puzzles) |-> Content(objects[ipl_puzzles[k]])]

OdiContents == [k \in 1..Len(odi_puzzles) |-> Content(objects[odi_puzzles[k]])]

IsIplContent(c) == \E k \in 1..Len(IplContents) : IplContents[k] = c

IsOdiContent(c) == \E k \in 1..Len(OdiContents) : OdiContents[k] = c

\* C12, as claimed: in the sequence written, every puzzle of the existing
\* (IPL) list has an odd id and every new (ODI) puzzle an even id, whatever
\* the lengths of the two lists.
AlternatingParity ==
    mpc = "done" =>
        \A k \in 1..Len(puzzles_file[1].puzzles) :
            LET written == puzzles_file[1].puzzles[k]
            IN  /\ IsIplContent(Content(written)) => written.id % 2 = 1
                /\ IsOdiContent(Content(written)) => written.id % 2 = 0

\* the puzzles appended so far, without their ids
AlternatingContents ==
    [k \in 1..Len(alternating_puzzles) |-> Content(objects[alternating_puzzles[k]])]

IsPrefix(part, whole) ==
    Len(part) <= Len(whole) /\ part = SubSeq(whole, 1, Len(part))

\* C13: the list built holds copies: its ids are 1, 2, ... in list order, the
\* puzzles of each input list appear in it in their order, and the records of
\* the input lists keep the ids they came with; when the function completes
\* the list written holds every existing and every new puzzle exactly once,
\* its length is the sum of the two lengths and is the metadata's
\* total_puzzles; when the print of a puzzle fails the file is left as read.
MergeKeepsEveryPuzzle ==
    /\ \A k \in 1..Len(alternating_puzzles) :
            /\ objects[alternating_puzzles[k]].id = k
            /\ alternating_puzzles[k] > Len(ipl_puzzles) + Len(odi_puzzles)
    /\ \A k \in 1..Len(ipl_puzzles) : objects[ipl_puzzles[k]].id = 100 + k
    /\ \A k \in 1..Len(odi_puzzles) : objects[odi_puzzles[k]] = OdiPuzzle(k)
    /\ IsPrefix(SelectSeq(AlternatingContents, IsIplContent), IplContents)
    /\ IsPrefix(SelectSeq(AlternatingContents, IsOdiContent), OdiContents)
    /\ mpc = "done" =>
            /\ puzzles_file[1].puzzles =
                    [k \in 1..Len(alternating_puzzles) |-> objects[alternating_puzzles[k]]]
            /\ Len(alternating_puzzles) = Len(ipl_puzzles) + Len(odi_puzzles)
            /\ puzzles_file[1].metadata.total_puzzles = Len(alternating_puzzles)
            /\ SelectSeq(AlternatingContents, IsIplContent) = IplContents
            /\ SelectSeq(AlternatingContents, IsOdiContent) = OdiContents
            /\ \A k \in 1..Len(ipl_puzzles) :
                    Cardinality({j \in 1..Len(AlternatingContents) :
                                    AlternatingContents[j] = IplContents[k]}) = 1
            /\ \A k \in 1..Len(odi_puzzles) :
                    Cardinality({j \in 1..Len(AlternatingContents) :
                                    AlternatingContents[j] = OdiContents[k]}) = 1
    /\ mpc # "done" =>
            \/ puzzles_file = None /\ ipl_puzzles = <<>>
            \/ /\ puzzles_file # None
               /\ puzzles_file[1].puzzles =
                        [k \in 1..Len(ipl_puzzles) |-> objects[ipl_puzzles[k]]]

\* three existing puzzles and one new one written as ids 1 to 4, the third
\* existing puzzle last, while the records given still carry 101 to 103 and
\* starting_puzzle_id
MergeKeepsEveryPuzzleWitness ==
    /\ mpc = "done"
    /\ Len(ipl_puzzles) = 3
    /\ Len(odi_puzzles) = 1
    /\ Len(puzzles_file[1].puzzles) = 4
    /\ puzzles_file[1].puzzles[2].targetPlayer = <<"O", "A">>
    /\ puzzles_file[1].puzzles[4].targetPlayer = <<"I", "C">>
    /\ puzzles_file[1].puzzles[4].id = 4
    /\ objects[ipl_puzzles[3]].id = 103
    /\ objects[odi_puzzles[1]].id = starting_puzzle_id

\* the teams of a player record, as a set (none when the list is missing)
TeamsOf(record) == IF "teams" \in DOMAIN record THEN Elements(record["teams"]) ELSE {}

\* the fields of a record other than teams
OtherFields(record) == [f \in (DOMAIN record) \ {"teams"} |-> record[f]]

\* the new record of key k names a team the record read for k does not
AddsTeams(k) == ~(TeamsOf(new_players[k]) \subseteq TeamsOf(read_players[k]))

\* C14: during and after a call every key read from the store is still there
\* with its fields other than teams as read; once the call has written, a key
\* of both the store and new_players has the union of the two team lists (and
\* its record as read when the new list adds nothing), a key of the store alone
\* has its record as read, a key of new_players alone has exactly the new
\* record, and the counts are the keys added and the keys whose teams grew;
\* the second call with the same new_players adds 0, updates 0 and writes the
\* store as it read it.
PlayersNeverLost ==
    /\ ppc \in {"loop", "start", "done"} /\ calls >= 1 =>
            \A k \in DOMAIN read_players :
                /\ k \in DOMAIN existing_players
                /\ OtherFields(existing_players[k]) = OtherFields(read_players[k])
                /\ TeamsOf(read_players[k]) \subseteq TeamsOf(existing_players[k])
    /\ ppc \in {"start", "done"} /\ calls >= 1 =>
            /\ players_file = Some(existing_players)
            /\ DOMAIN existing_players = DOMAIN read_players \cup DOMAIN new_players
            /\ \A k \in DOMAIN read_players \cap DOMAIN new_players :
                    IF AddsTeams(k)
                    THEN /\ TeamsOf(existing_players[k]) =
                                TeamsOf(read_players[k]) \cup TeamsOf(new_players[k])
                         /\ Len(existing_players[k]["teams"]) =
                                Cardinality(TeamsOf(existing_players[k]))
                    ELSE existing_players[k] = read_players[k]
            /\ \A k \in DOMAIN read_players \ DOMAIN new_players :
                    existing_players[k] = read_players[k]
            /\ \A k \in DOMAIN new_players \ DOMAIN read_players :
                    existing_players[k] = new_players[k]
            /\ added_count = Cardinality(DOMAIN new_players \ DOMAIN read_players)
            /\ updated_count =
                    Cardinality({k \in DOMAIN read_players \cap DOMAIN new_players :
                                    AddsTeams(k)})
            /\ new_players_added = added_count
            /\ calls = 2 =>
                    /\ added_count = 0
                    /\ updated_count = 0
                    /\ existing_players = read_players

\* after the second call: one player kept the stored name and has the stored
\* team T1 together with the new teams T2 and T3, another is exactly the new
\* record, and the second call counted nothing
PlayersNeverLostWitness ==
    /\ ppc = "done"
    /\ calls = 2
    /\ <<"A", "B">> \in DOMAIN players_file[1]
    /\ players_file[1][<<"A", "B">>].fullName = "stored name"
    /\ TeamsOf(players_file[1][<<"A", "B">>]) = {"T1", "T2", "T3"}
    /\ <<"C">> \in DOMAIN players_file[1]
    /\ <<"C">> \in DOMAIN new_players
    /\ players_file[1][<<"C">>] = new_players[<<"C">>]
    /\ added_count = 0
    /\ updated_count = 0

====
